---- MODULE Spec2Model ----
(***************************************************************************)
(* A model of mlpack's data::Split() family (core/data/split_data.hpp).    *)
(*                                                                         *)
(* A matrix is a vector of columns, indexed from 0 as in the code.  The    *)
(* input matrix has n_cols pairwise distinct columns; column j of the      *)
(* input is written j, so an output column holding j holds a copy of       *)
(* input column j.  Labels are small naturals, one per column.             *)
(*                                                                         *)
(* size_t values are kept as integers modulo 2^64 in two's-complement      *)
(* form: a value v < 0 stands for 2^64 + v.  Unsigned subtraction is then  *)
(* plain subtraction, and unsigned comparison is ULess.                    *)
(*                                                                         *)
(* testRatio is a rational [num, den]; products with column counts are     *)
(* exact.                                                                  *)
(***************************************************************************)
EXTENDS Integers, Sequences, FiniteSets, TLC

(* Bounds of the model. *)
MaxN == 3
MaxLabel == 1
MaxPrior == 1

(* Contents of a column that the call did not write. *)
Old == -1
Uninit == -2

(* --- vectors indexed from 0 --- *)
NCols(v) == Cardinality(DOMAIN v)

Fill(k, x) == [j \in 0..(k - 1) |-> x]

Identity(k) == [j \in 0..(k - 1) |-> j]

Permutations0(k) ==
  {f \in [0..(k - 1) -> 0..(k - 1)] : \A a, b \in 0..(k - 1) : f[a] = f[b] => a = b}

(* --- testRatio --- *)
InRangeRatios ==
  {[num |-> 0, den |-> 1], [num |-> 1, den |-> 4], [num |-> 1, den |-> 3],
   [num |-> 1, den |-> 2], [num |-> 2, den |-> 3], [num |-> 3, den |-> 4],
   [num |-> 1, den |-> 1]}

OutOfRangeRatios == {[num |-> 3, den |-> 2], [num |-> -1, den |-> 2]}

Ratios == InRangeRatios \cup OutOfRangeRatios

RatioInRange(r) == 0 <= r.num /\ r.num <= r.den

(* floor(k * r), as floor() of a double computes it. *)
Floor(k, r) == (k * r.num) \div r.den

(* k * r truncated toward zero, as a conversion to an integer type does. *)
Trunc(k, r) ==
  IF k * r.num >= 0 THEN (k * r.num) \div r.den ELSE -((-(k * r.num)) \div r.den)

(* --- size_t --- *)
Huge(v) == v < 0

ULess(a, b) == IF Huge(a) = Huge(b) THEN a < b ELSE Huge(b)

(* The outcomes of converting the double cur + delta to size_t, cur being  *)
(* a size_t.  A result outside the range of size_t is undefined: builds    *)
(* either saturate or wrap.                                                *)
DoubleToSizeT(cur, delta) ==
  IF Huge(cur) THEN {0, -1}
  ELSE IF cur + delta < 0 THEN {0, cur + delta}
  ELSE {cur + delta}

(* Cols with the offset of the first column dropped. *)
ColsFromZero(v, a, b) == [j \in 0..(b - a) |-> v[j]]

(* input.cols(a, b): the columns a..b of v, in order. *)
Cols(v, a, b) == [j \in 0..(b - a) |-> v[a + j]]

(* Armadillo accepts cols(a, b) only for a <= b < n_cols. *)
ColsInBounds(v, a, b) == a <= b /\ b < NCols(v)

(* set_size(rows, k): k columns whose contents are not defined.  A size    *)
(* near 2^64 cannot be allocated and the call throws.                      *)
CanAllocate(k) == ~Huge(k)

Resized(k) == Fill(k, Uninit)

(* --- the state of one call --- *)
VARIABLES
  api,             \* the entry point that was called
  stratifyData,    \* the flag of the tuple-returning overload
  input,           \* the dataset: column j holds j
  inputLabel,      \* the labels, one per column
  labelsType,      \* the Armadillo type of the label container
  testRatio,
  shuffleData,
  order,           \* the outcome of arma::shuffle on 0..n_cols-1
  prior,           \* the number of columns each output held before the call
  trainData, testData, trainLabel, testLabel,
  testSize, trainSize,
  i,               \* the loop index
  trainIdx, testIdx,
  labelCounts, testLabelCounts,
  pc,              \* "call", a loop, "done" or "error"
  err              \* the exception that ended the call, if any

(* --- the state of one call of AllCategoricalSplit::SplitIfBetter --- *)
VARIABLES
  UseWeights,        \* the template flag
  SplitInfoType,     \* "double" (regression) or "vec" (classification)
  negativeCast,      \* what the build makes of (size_t) x for x <= -1
  bestGain, data, numCategories,
  nodeLabels,        \* the parameter `labels`
  numClasses, weights,
  minimumLeafSize, minimumGainSplit,
  splitInfo,
  childCounts,       \* the local `counts`
  childWeightSums, sumWeight,
  childPositions, childLabels, childWeights,
  overallGain,
  ret,               \* the value SplitIfBetter returned
  point,             \* a point routed with the stored payload
  numChildren, direction

sibArgs == <<UseWeights, SplitInfoType, negativeCast, bestGain, data,
             numCategories, nodeLabels, numClasses, weights, minimumLeafSize,
             minimumGainSplit>>

sibLocals == <<childCounts, childWeightSums, sumWeight, childPositions, childLabels,
               childWeights, overallGain>>

routing == <<point, numChildren, direction>>

sibVars == <<sibArgs, splitInfo, sibLocals, ret, routing>>

(* --- the state of one call of an SSELoss function --- *)
VARIABLES
  lossFn,            \* the function that was called
  elemType,          \* the element type eT
  shape,             \* "scalar", "Row" or "Col"
  observed, predicted,
  lossResult

lossVars == <<lossFn, elemType, shape, observed, predicted, lossResult>>

(* The state of the other components, which a Split call leaves alone. *)
elsewhere == <<sibVars, lossVars>>

args == <<api, stratifyData, input, inputLabel, labelsType, testRatio,
          shuffleData, order, prior>>

outputs == <<trainData, testData, trainLabel, testLabel>>

locals == <<testSize, trainSize, i, trainIdx, testIdx, labelCounts,
            testLabelCounts>>

splitVars == <<args, outputs, locals>>

vars == <<args, outputs, locals, pc, err, elsewhere>>

n_cols == NCols(input)

Apis == {"Split", "SplitData", "StratifiedSplit", "SplitTuple", "SplitField",
         "SplitFieldTuple"}

(* The overloads that take arma::field containers. *)
FieldApis == {"SplitField", "SplitFieldTuple"}

(* The function that does the work of the call. *)
Callee ==
  CASE api = "Split" -> "SplitHelperLabels"
    [] api = "SplitData" -> "SplitHelperData"
    [] api = "StratifiedSplit" -> "StratifiedSplit"
    [] api = "SplitTuple" ->
         IF stratifyData THEN "StratifiedSplit" ELSE "SplitHelperLabels"
    [] api \in FieldApis -> "SplitHelperLabels"

WithLabels == Callee # "SplitHelperData"

(* The label vectors a call can be given.  Split() does not require the    *)
(* label count to equal the column count; StratifiedSplit is given         *)
(* exactly one label per column.                                           *)
LabelLengths(callee, n) ==
  CASE callee = "SplitHelperData" -> {0}
    [] callee = "StratifiedSplit" -> {n}
    [] callee = "SplitHelperLabels" -> {k \in {n - 1, n, n + 1} : k >= 0}

LabelsTypes(callee) ==
  IF callee = "SplitHelperData" THEN {"Row"} ELSE {"Row", "Mat"}

(* No SplitIfBetter call is in progress. *)
SibIdle ==
  /\ UseWeights = FALSE
  /\ SplitInfoType = "double"
  /\ negativeCast = "wrap"
  /\ bestGain = 0
  /\ data = <<>>
  /\ numCategories = 0
  /\ nodeLabels = <<>>
  /\ numClasses = 0
  /\ weights = <<>>
  /\ minimumLeafSize = 0
  /\ minimumGainSplit = 0
  /\ splitInfo = 0
  /\ childCounts = <<>>
  /\ childWeightSums = <<>>
  /\ sumWeight = 0
  /\ childPositions = <<>>
  /\ childLabels = <<>>
  /\ childWeights = <<>>
  /\ overallGain = 0
  /\ ret = 0
  /\ point = 0
  /\ numChildren = 0
  /\ direction = 0

(* No SSELoss call is in progress. *)
LossIdle ==
  /\ lossFn = "none"
  /\ elemType = "double"
  /\ shape = "scalar"
  /\ observed = 0
  /\ predicted = 0
  /\ lossResult = 0

(* No Split call is in progress. *)
SplitIdle ==
  /\ api = "none"
  /\ stratifyData = FALSE
  /\ input = <<>>
  /\ inputLabel = <<>>
  /\ labelsType = "Row"
  /\ testRatio = [num |-> 0, den |-> 1]
  /\ shuffleData = FALSE
  /\ order = <<>>
  /\ prior = 0
  /\ trainData = <<>>
  /\ testData = <<>>
  /\ trainLabel = <<>>
  /\ testLabel = <<>>
  /\ testSize = 0
  /\ trainSize = 0
  /\ i = 0
  /\ trainIdx = 0
  /\ testIdx = 0
  /\ labelCounts = <<>>
  /\ testLabelCounts = <<>>

(* The documented example: 10 columns, 30% held out, no shuffling. *)
ExampleCols == 10

ExampleRatio == [num |-> 3, den |-> 10]

(* The calls that are made.  StratifiedSplit takes inputLabel.max(), which  *)
(* needs at least one label, and its labels are a Row (or a Mat, which it  *)
(* rejects); the field overloads hand shuffleData on to SplitHelper as     *)
(* the others do and are called without shuffling here; the second         *)
(* disjunct is the documented example.                                     *)
CallArgs ==
  \/ /\ api \in Apis
     /\ stratifyData \in (IF api = "SplitTuple" THEN BOOLEAN ELSE {FALSE})
     /\ \E n \in 0..MaxN :
          /\ Callee = "StratifiedSplit" => n >= 1
          /\ input = Identity(n)
          /\ shuffleData \in (IF api \in FieldApis THEN {FALSE} ELSE BOOLEAN)
          /\ order \in (IF shuffleData THEN Permutations0(n)
                        ELSE {Identity(n)})
          /\ \E len \in LabelLengths(Callee, n) :
               inputLabel \in [0..(len - 1) -> 0..MaxLabel]
     /\ labelsType \in (IF api \in FieldApis THEN {"Field"}
                        ELSE LabelsTypes(Callee))
     /\ testRatio \in Ratios
     /\ prior \in (IF api \in {"SplitTuple", "SplitFieldTuple"} THEN {0}
                   ELSE 0..MaxPrior)
  \/ /\ api \in {"Split", "SplitData"}
     /\ stratifyData = FALSE
     /\ input = Identity(ExampleCols)
     /\ shuffleData = FALSE
     /\ order = Identity(ExampleCols)
     /\ inputLabel = Fill(IF api = "Split" THEN ExampleCols ELSE 0, 0)
     /\ labelsType = "Row"
     /\ testRatio = ExampleRatio
     /\ prior = 0

Init ==
  /\ CallArgs
  /\ trainData = Fill(prior, Old)
  /\ testData = Fill(prior, Old)
  /\ trainLabel = Fill(IF WithLabels THEN prior ELSE 0, Old)
  /\ testLabel = Fill(IF WithLabels THEN prior ELSE 0, Old)
  /\ testSize = 0
  /\ trainSize = 0
  /\ i = 0
  /\ trainIdx = 0
  /\ testIdx = 0
  /\ labelCounts = <<>>
  /\ testLabelCounts = <<>>
  /\ pc = "call"
  /\ err = "none"
  /\ SibIdle
  /\ LossIdle

(* --- the field overloads: which container of the caller is which output --- *)

(* The output parameters of the field overload, in the order of its        *)
(* signature.                                                              *)
FieldParams == <<"trainData", "trainLabel", "testData", "testLabel">>

(* The output arguments of the documented call of the field overload. *)
DocumentedArgs == <<"trainData", "testData", "trainLabel", "testLabel">>

(* The output arguments the tuple-returning field overload passes on. *)
TupleArgs == <<"trainData", "trainLabel", "testData", "testLabel">>

(* The outputs SplitHelper fills, by parameter name; every overload hands  *)
(* its own parameters to SplitHelper under the same names.                 *)
ParamValue(name) ==
  CASE name = "trainData" -> trainData
    [] name = "testData" -> testData
    [] name = "trainLabel" -> trainLabel
    [] name = "testLabel" -> testLabel

(* The parameter that the container the caller calls `name` is bound to. *)
BoundParam(name) ==
  CASE api = "SplitField" ->
         FieldParams[CHOOSE k \in 1..4 : DocumentedArgs[k] = name]
    [] api = "SplitFieldTuple" ->
         FieldParams[CHOOSE k \in 1..4 : TupleArgs[k] = name]
    [] OTHER -> name

(* What the caller finds in its container `name`. *)
CallerSees(name) == ParamValue(BoundParam(name))

(* The tuple a tuple-returning overload returns. *)
ReturnedTuple ==
  <<CallerSees("trainData"), CallerSees("testData"), CallerSees("trainLabel"),
    CallerSees("testLabel")>>

(* --- SplitHelper --- *)

(* TestSizes with the product rounded up instead of truncated. *)
TestSizesRoundUp(n, r) == DoubleToSizeT(0, (n * r.num + r.den - 1) \div r.den)

(* testSize as computed from the column count. *)
TestSizes(n, r) == DoubleToSizeT(0, Trunc(n, r))

(* trainSize: an unsigned subtraction. *)
TrainSizeOf(n, ts) == n - ts

(* ResizeOutputs with the train and test sizes exchanged. *)
ResizeOutputsSwapped(tr, ts, labels) ==
  /\ trainData' = IF CanAllocate(tr) THEN Resized(ts) ELSE trainData
  /\ testData' = IF CanAllocate(tr) /\ CanAllocate(ts) THEN Resized(tr)
                 ELSE testData
  /\ trainLabel' = IF labels /\ CanAllocate(tr) /\ CanAllocate(ts)
                   THEN Resized(ts) ELSE trainLabel
  /\ testLabel' = IF labels /\ CanAllocate(tr) /\ CanAllocate(ts)
                  THEN Resized(tr) ELSE testLabel

(* The set_size() calls, in the order of the code; the first that cannot   *)
(* allocate throws and the later ones are not reached.                     *)
ResizeOutputs(tr, ts, labels) ==
  /\ trainData' = IF CanAllocate(tr) THEN Resized(tr) ELSE trainData
  /\ testData' = IF CanAllocate(tr) /\ CanAllocate(ts) THEN Resized(ts)
                 ELSE testData
  /\ trainLabel' = IF labels /\ CanAllocate(tr) /\ CanAllocate(ts)
                   THEN Resized(tr) ELSE trainLabel
  /\ testLabel' = IF labels /\ CanAllocate(tr) /\ CanAllocate(ts)
                  THEN Resized(ts) ELSE testLabel

(* The head of both SplitHelper overloads: the sizes and the resizing. *)
SplitHelperBegin ==
  /\ pc = "call"
  /\ Callee \in {"SplitHelperLabels", "SplitHelperData"}
  /\ \E ts \in TestSizes(n_cols, testRatio) :
       LET tr == TrainSizeOf(n_cols, ts) IN
         /\ testSize' = ts
         /\ trainSize' = tr
         /\ ResizeOutputs(tr, ts, WithLabels)
         /\ IF CanAllocate(tr) /\ CanAllocate(ts)
            THEN /\ pc' = IF shuffleData THEN "trainLoop" ELSE "slice"
                 /\ err' = err
            ELSE /\ pc' = "error"
                 /\ err' = "bad_alloc"
  /\ i' = 0
  /\ UNCHANGED <<elsewhere, args, trainIdx, testIdx, labelCounts, testLabelCounts>>

(* The outcomes of an access outside a container: Armadillo throws when    *)
(* its bounds checks are compiled in, and the access is undefined when     *)
(* they are not.                                                           *)
OutOfBoundsOutcomes == {"logic_error", "undefined"}

(* TrainLoopStep taking the label at the loop index, not at order(i). *)
TrainLoopStepLabelByPosition ==
  /\ pc = "trainLoop"
  /\ ULess(i, trainSize)
  /\ trainData' = [trainData EXCEPT ![i] = input[order[i]]]
  /\ IF ~WithLabels
     THEN /\ UNCHANGED <<trainLabel, err, pc>>
          /\ i' = i + 1
     ELSE IF i \in DOMAIN inputLabel
     THEN /\ trainLabel' = [trainLabel EXCEPT ![i] = inputLabel[i]]
          /\ i' = i + 1
          /\ UNCHANGED <<err, pc>>
     ELSE /\ pc' = "error"
          /\ err' \in OutOfBoundsOutcomes
          /\ UNCHANGED <<trainLabel, i>>
  /\ UNCHANGED <<elsewhere, args, testData, testLabel, testSize, trainSize, trainIdx,
                 testIdx, labelCounts, testLabelCounts>>

(* One iteration of the shuffled train loop. *)
TrainLoopStep ==
  /\ pc = "trainLoop"
  /\ ULess(i, trainSize)
  /\ trainData' = [trainData EXCEPT ![i] = input[order[i]]]
  /\ IF ~WithLabels
     THEN /\ UNCHANGED <<trainLabel, err, pc>>
          /\ i' = i + 1
     ELSE IF order[i] \in DOMAIN inputLabel
     THEN /\ trainLabel' = [trainLabel EXCEPT ![i] = inputLabel[order[i]]]
          /\ i' = i + 1
          /\ UNCHANGED <<err, pc>>
     ELSE /\ pc' = "error"
          /\ err' \in OutOfBoundsOutcomes
          /\ UNCHANGED <<trainLabel, i>>
  /\ UNCHANGED <<elsewhere, args, testData, testLabel, testSize, trainSize, trainIdx,
                 testIdx, labelCounts, testLabelCounts>>

(* The train loop ends; the test loop starts at i = trainSize. *)
TrainLoopExit ==
  /\ pc = "trainLoop"
  /\ ~ULess(i, trainSize)
  /\ pc' = "testLoop"
  /\ i' = trainSize
  /\ UNCHANGED <<elsewhere, args, outputs, testSize, trainSize, trainIdx, testIdx,
                 labelCounts, testLabelCounts, err>>

(* TestLoopStep reading the order at the destination index. *)
TestLoopStepReindexed ==
  /\ pc = "testLoop"
  /\ ULess(i, n_cols)
  /\ testData' = [testData EXCEPT ![i - trainSize] =
                    input[order[i - trainSize]]]
  /\ IF ~WithLabels
     THEN /\ UNCHANGED <<testLabel, err, pc>>
          /\ i' = i + 1
     ELSE IF order[i - trainSize] \in DOMAIN inputLabel
     THEN /\ testLabel' = [testLabel EXCEPT ![i - trainSize] =
                             inputLabel[order[i - trainSize]]]
          /\ i' = i + 1
          /\ UNCHANGED <<err, pc>>
     ELSE /\ pc' = "error"
          /\ err' \in OutOfBoundsOutcomes
          /\ UNCHANGED <<testLabel, i>>
  /\ UNCHANGED <<elsewhere, args, trainData, trainLabel, testSize, trainSize, trainIdx,
                 testIdx, labelCounts, testLabelCounts>>

(* One iteration of the shuffled test loop. *)
TestLoopStep ==
  /\ pc = "testLoop"
  /\ ULess(i, n_cols)
  /\ testData' = [testData EXCEPT ![i - trainSize] = input[order[i]]]
  /\ IF ~WithLabels
     THEN /\ UNCHANGED <<testLabel, err, pc>>
          /\ i' = i + 1
     ELSE IF order[i] \in DOMAIN inputLabel
     THEN /\ testLabel' = [testLabel EXCEPT ![i - trainSize] =
                             inputLabel[order[i]]]
          /\ i' = i + 1
          /\ UNCHANGED <<err, pc>>
     ELSE /\ pc' = "error"
          /\ err' \in OutOfBoundsOutcomes
          /\ UNCHANGED <<testLabel, i>>
  /\ UNCHANGED <<elsewhere, args, trainData, trainLabel, testSize, trainSize, trainIdx,
                 testIdx, labelCounts, testLabelCounts>>

TestLoopExit ==
  /\ pc = "testLoop"
  /\ ~ULess(i, n_cols)
  /\ pc' = "done"
  /\ UNCHANGED <<elsewhere, args, outputs, locals, err>>

(* The unshuffled branch: two slices of the input, and two of the labels.  *)
(* A label slice outside the label vector ends the call where it stands.   *)
Slice ==
  /\ pc = "slice"
  /\ LET doTrain == trainSize > 0
         doTest == trainSize < n_cols
         lastLabel == NCols(inputLabel) - 1
         trainOK == ~(doTrain /\ WithLabels)
                    \/ ColsInBounds(inputLabel, 0, trainSize - 1)
         testOK == ~(doTest /\ WithLabels)
                   \/ ColsInBounds(inputLabel, trainSize, lastLabel)
     IN
       /\ trainData' = IF doTrain THEN Cols(input, 0, trainSize - 1)
                       ELSE trainData
       /\ trainLabel' = IF doTrain /\ WithLabels /\ trainOK
                        THEN Cols(inputLabel, 0, trainSize - 1)
                        ELSE trainLabel
       /\ testData' = IF doTest /\ trainOK
                      THEN Cols(input, trainSize, n_cols - 1)
                      ELSE testData
       /\ testLabel' = IF doTest /\ WithLabels /\ trainOK /\ testOK
                       THEN Cols(inputLabel, trainSize, lastLabel)
                       ELSE testLabel
       /\ IF trainOK /\ testOK
          THEN /\ pc' = "done"
               /\ err' = err
          ELSE /\ pc' = "error"
               /\ err' \in OutOfBoundsOutcomes
  /\ UNCHANGED <<elsewhere, args, locals>>

(* --- StratifiedSplit --- *)

(* typeCheck accepting every label container. *)
typeCheckAny(t) == TRUE

(* Stratification accepts a Row or a Col of labels only. *)
typeCheck(t) == t = "Row" \/ t = "Col"

maxLabel(labels) ==
  CHOOSE m \in {labels[j] : j \in DOMAIN labels} :
    \A j \in DOMAIN labels : labels[j] <= m

(* labelCounts after the counting loop: one entry per label 0..maxLabel. *)
CountLabels(labels) ==
  [c \in 0..maxLabel(labels) |->
     Cardinality({j \in DOMAIN labels : labels[j] = c})]

(* StratifiedSizes adding the whole class count to trainSize. *)
RECURSIVE StratifiedSizesNoSubtract(_, _, _)
StratifiedSizesNoSubtract(counts, r, k) ==
  IF k = 0 THEN {<<0, 0>>}
  ELSE UNION {
         {<<ts, tr>> : ts \in DoubleToSizeT(p[1], Floor(counts[k - 1], r)),
                       tr \in DoubleToSizeT(p[2], counts[k - 1])}
         : p \in StratifiedSizesNoSubtract(counts, r, k - 1)}

(* The pairs <<testSize, trainSize>> the accumulation loop can end with    *)
(* after the classes 0..k-1; each += converts a double back to size_t.     *)
RECURSIVE StratifiedSizes(_, _, _)
StratifiedSizes(counts, r, k) ==
  IF k = 0 THEN {<<0, 0>>}
  ELSE UNION {
         {<<ts, tr>> : ts \in DoubleToSizeT(p[1], Floor(counts[k - 1], r)),
                       tr \in DoubleToSizeT(p[2], counts[k - 1]
                                                   - Floor(counts[k - 1], r))}
         : p \in StratifiedSizes(counts, r, k - 1)}

(* The head of StratifiedSplit: the type check, the label counts, the      *)
(* sizes and the resizing.                                                 *)
StratifiedBegin ==
  /\ pc = "call"
  /\ Callee = "StratifiedSplit"
  /\ IF ~typeCheck(labelsType)
     THEN /\ pc' = "error"
          /\ err' = "runtime_error"
          /\ UNCHANGED <<outputs, locals>>
     ELSE LET counts == CountLabels(inputLabel) IN
          /\ labelCounts' = counts
          /\ testLabelCounts' = [c \in DOMAIN counts |-> 0]
          /\ \E p \in StratifiedSizes(counts, testRatio, NCols(counts)) :
               /\ testSize' = p[1]
               /\ trainSize' = p[2]
               /\ ResizeOutputs(p[2], p[1], TRUE)
               /\ IF CanAllocate(p[2]) /\ CanAllocate(p[1])
                  THEN /\ pc' = "stratLoop"
                       /\ err' = err
                  ELSE /\ pc' = "error"
                       /\ err' = "bad_alloc"
          /\ i' = 0
          /\ trainIdx' = 0
          /\ testIdx' = 0
  /\ UNCHANGED <<elsewhere, args>>

(* TakeForTest with one budget for all classes instead of one per class. *)
TakeForTestAnyClass(label) == testIdx < testSize

(* TakeForTest holding back the first samples of a class for training. *)
TakeForTestLastOfClass(label) ==
  LET seen == Cardinality({k \in 0..(i - 1) :
                             inputLabel[IF shuffleData THEN order[k] ELSE k]
                               = label})
  IN seen - testLabelCounts[label]
       >= labelCounts[label] - Floor(labelCounts[label], testRatio)

(* The test budget of a class is not used up yet. *)
TakeForTest(label) ==
  testLabelCounts[label] < Floor(labelCounts[label], testRatio)

(* One iteration of the per-sample loop; the unshuffled loop visits the    *)
(* columns in their order.                                                 *)
StratifiedStep ==
  /\ pc = "stratLoop"
  /\ i < n_cols
  /\ LET col == IF shuffleData THEN order[i] ELSE i
         label == inputLabel[col]
     IN
       IF TakeForTest(label)
       THEN /\ testLabelCounts' = [testLabelCounts EXCEPT ![label] = @ + 1]
            /\ IF testIdx \in DOMAIN testData
               THEN /\ testData' = [testData EXCEPT ![testIdx] = input[col]]
                    /\ testLabel' = [testLabel EXCEPT ![testIdx] =
                                       inputLabel[col]]
                    /\ testIdx' = testIdx + 1
                    /\ i' = i + 1
                    /\ UNCHANGED <<pc, err>>
               ELSE /\ pc' = "error"
                    /\ err' \in OutOfBoundsOutcomes
                    /\ UNCHANGED <<testData, testLabel, testIdx, i>>
            /\ UNCHANGED <<trainData, trainLabel, trainIdx>>
       ELSE /\ IF trainIdx \in DOMAIN trainData
               THEN /\ trainData' = [trainData EXCEPT ![trainIdx] = input[col]]
                    /\ trainLabel' = [trainLabel EXCEPT ![trainIdx] =
                                        inputLabel[col]]
                    /\ trainIdx' = trainIdx + 1
                    /\ i' = i + 1
                    /\ UNCHANGED <<pc, err>>
               ELSE /\ pc' = "error"
                    /\ err' \in OutOfBoundsOutcomes
                    /\ UNCHANGED <<trainData, trainLabel, trainIdx, i>>
            /\ UNCHANGED <<testData, testLabel, testIdx, testLabelCounts>>
  /\ UNCHANGED <<elsewhere, args, testSize, trainSize, labelCounts>>

StratifiedExit ==
  /\ pc = "stratLoop"
  /\ ~(i < n_cols)
  /\ pc' = "done"
  /\ UNCHANGED <<elsewhere, args, outputs, locals, err>>

Next ==
  \/ SplitHelperBegin
  \/ TrainLoopStep
  \/ TrainLoopExit
  \/ TestLoopStep
  \/ TestLoopExit
  \/ Slice
  \/ StratifiedBegin
  \/ StratifiedStep
  \/ StratifiedExit

Spec == Init /\ [][Next]_vars

TypeOK ==
  /\ pc \in {"call", "trainLoop", "testLoop", "slice", "stratLoop", "done",
             "error"}
  /\ err \in {"none", "bad_alloc", "runtime_error"} \cup OutOfBoundsOutcomes
  /\ (pc = "error") = (err # "none")

(* --- vocabulary of the properties --- *)

InRange == RatioInRange(testRatio)

Plain == Callee \in {"SplitHelperLabels", "SplitHelperData"}

Stratified == Callee = "StratifiedSplit"

FlatLabels == labelsType \in {"Row", "Col"}

LabelsMatch == NCols(inputLabel) = n_cols

Resizing == pc \notin {"call", "error"}

(* The outputs hold what they held before the call. *)
OutputsUntouched ==
  /\ trainData = Fill(prior, Old)
  /\ testData = Fill(prior, Old)
  /\ trainLabel = Fill(IF WithLabels THEN prior ELSE 0, Old)
  /\ testLabel = Fill(IF WithLabels THEN prior ELSE 0, Old)

(* How many columns of v hold x. *)
Occurrences(v, x) == Cardinality({k \in DOMAIN v : v[k] = x})

(* Every input column is in exactly one output column. *)
IsPartition ==
  /\ \A j \in DOMAIN input :
       Occurrences(trainData, input[j]) + Occurrences(testData, input[j]) = 1
  /\ \A k \in DOMAIN trainData : trainData[k] \in DOMAIN input
  /\ \A k \in DOMAIN testData : testData[k] \in DOMAIN input

(* The samples of class c among the written columns of a data output. *)
OfClass(v, c) ==
  Cardinality({k \in DOMAIN v : v[k] \in DOMAIN inputLabel
                                /\ inputLabel[v[k]] = c})

ClassCount(c) == Occurrences(inputLabel, c)

Classes == {inputLabel[j] : j \in DOMAIN inputLabel}

(* C1: a non-stratified split with testRatio in [0,1] sizes the test       *)
(* output to floor(n * testRatio) columns and the train output to the      *)
(* other n - floor(n * testRatio), whatever the outputs held before.       *)
C1_PlainSizes ==
  (Plain /\ InRange /\ pc # "call") =>
    /\ NCols(testData) = Floor(n_cols, testRatio)
    /\ NCols(trainData) = n_cols - Floor(n_cols, testRatio)
    /\ trainSize + testSize = n_cols
    /\ testSize = NCols(testData)
    /\ trainSize = NCols(trainData)
    /\ (WithLabels /\ LabelsMatch) =>
         /\ NCols(trainLabel) = NCols(trainData)
         /\ NCols(testLabel) = NCols(testData)

C1_Witness ==
  /\ Plain /\ pc = "done" /\ prior > 0
  /\ n_cols = 3 /\ testRatio = [num |-> 1, den |-> 2]
  /\ NCols(testData) = 1 /\ NCols(trainData) = 2

(* C2: a finished non-stratified split, shuffled or not, has copied every  *)
(* input column to exactly one column of train or test.                    *)
C2_PlainPartition ==
  (Plain /\ InRange /\ pc = "done") => IsPartition

C2_Witness ==
  /\ Plain /\ pc = "done" /\ shuffleData
  /\ n_cols = 3 /\ order = (0 :> 2 @@ 1 :> 0 @@ 2 :> 1)
  /\ testRatio = [num |-> 2, den |-> 3]
  /\ IsPartition /\ NCols(trainData) = 1

(* C3: an unshuffled non-stratified split is a contiguous slice: train     *)
(* column k is input column k, test column j is input column               *)
(* trainSize + j, and train followed by test is the input.                 *)
C3_UnshuffledSlice ==
  (Plain /\ InRange /\ ~shuffleData /\ pc = "done") =>
    /\ \A k \in 0..(trainSize - 1) : trainData[k] = input[k]
    /\ \A j \in 0..(testSize - 1) : testData[j] = input[trainSize + j]
    /\ NCols(trainData) = trainSize
    /\ NCols(testData) = testSize
    /\ [k \in 0..(n_cols - 1) |->
          IF k < trainSize THEN trainData[k] ELSE testData[k - trainSize]]
       = input

C3_Witness ==
  /\ Plain /\ pc = "done" /\ ~shuffleData
  /\ n_cols = ExampleCols /\ testRatio = ExampleRatio
  /\ trainSize = ExampleCols - 3 /\ testSize = 3
  /\ testData = [j \in 0..2 |-> ExampleCols - 3 + j]

(* C4: a finished stratified split has put exactly                         *)
(* floor(classCount(c) * testRatio) samples of every class c in the test   *)
(* output and the other samples of class c in the train output.            *)
C4_PerClassTestCount ==
  (Stratified /\ FlatLabels /\ InRange /\ pc = "done") =>
    \A c \in Classes :
      /\ OfClass(testData, c) = Floor(ClassCount(c), testRatio)
      /\ OfClass(trainData, c) = ClassCount(c) - Floor(ClassCount(c), testRatio)

C4_Witness ==
  /\ Stratified /\ pc = "done" /\ api = "SplitTuple"
  /\ n_cols = 3 /\ Classes = {0, 1} /\ ClassCount(1) = 2
  /\ testRatio = [num |-> 1, den |-> 2]
  /\ OfClass(testData, 1) = 1 /\ OfClass(testData, 0) = 0

(* C5: in a stratified split every write is in bounds and, at the end,     *)
(* testIdx = testSize, trainIdx = trainSize, the sizes add up to n and     *)
(* every output column has been written exactly once.                      *)
C5_StratifiedInBounds ==
  (Stratified /\ FlatLabels /\ InRange) =>
    /\ err \notin OutOfBoundsOutcomes
    /\ (pc = "stratLoop" /\ i < n_cols) =>
         LET label == inputLabel[IF shuffleData THEN order[i] ELSE i] IN
           /\ TakeForTest(label) => testIdx < testSize
           /\ ~TakeForTest(label) => trainIdx < trainSize
           /\ testSize = NCols(testData)
           /\ trainSize = NCols(trainData)
    /\ pc = "done" =>
         /\ testIdx = testSize
         /\ trainIdx = trainSize
         /\ trainSize + testSize = n_cols
         /\ NCols(testData) = testSize
         /\ NCols(trainData) = trainSize
         /\ IsPartition

C5_Witness ==
  /\ Stratified /\ pc = "done" /\ InRange
  /\ n_cols = 3 /\ testIdx = 1 /\ trainIdx = 2
  /\ Classes = {0, 1}

(* C6: data and labels move together: the label at position k of          *)
(* trainLabel (testLabel) is the input label of the input column whose     *)
(* data is in column k of trainData (testData).                            *)
C6_LabelsFollowData ==
  (WithLabels /\ LabelsMatch /\ InRange /\ (Stratified => FlatLabels)) =>
    /\ \A k \in DOMAIN trainData :
         trainData[k] \in DOMAIN input =>
           (k \in DOMAIN trainLabel /\ trainLabel[k] = inputLabel[trainData[k]])
    /\ \A k \in DOMAIN testData :
         testData[k] \in DOMAIN input =>
           (k \in DOMAIN testLabel /\ testLabel[k] = inputLabel[testData[k]])
    /\ pc = "done" =>
         /\ IsPartition
         /\ NCols(trainLabel) = NCols(trainData)
         /\ NCols(testLabel) = NCols(testData)

C6_Witness ==
  /\ Callee = "SplitHelperLabels" /\ pc = "done" /\ LabelsMatch
  /\ shuffleData /\ order = (0 :> 1 @@ 1 :> 2 @@ 2 :> 0)
  /\ inputLabel = (0 :> 0 @@ 1 :> 1 @@ 2 :> 0)
  /\ trainData = (0 :> 1 @@ 1 :> 2) /\ testData = (0 :> 0)
  /\ trainLabel = (0 :> 1 @@ 1 :> 0) /\ testLabel = (0 :> 0)

(* The sum over the classes 0..c of floor(classCount * testRatio). *)
RECURSIVE TestBudgetUpTo(_)
TestBudgetUpTo(c) ==
  IF c < 0 THEN 0
  ELSE Floor(ClassCount(c), testRatio) + TestBudgetUpTo(c - 1)

(* C7 as stated: a stratified split sizes the test output to               *)
(* floor(n * testRatio) columns and the train output to the rest.          *)
C7_StratifiedSizesOfTotal ==
  (Stratified /\ FlatLabels /\ InRange /\ Resizing) =>
    /\ NCols(testData) = Floor(n_cols, testRatio)
    /\ NCols(trainData) = n_cols - Floor(n_cols, testRatio)

(* C7 amended: a stratified split sizes the test output to the sum over    *)
(* the classes of floor(classCount(c) * testRatio) columns, which is at    *)
(* most floor(n * testRatio), and the train output to the other columns.   *)
C7_StratifiedSizesPerClass ==
  (Stratified /\ FlatLabels /\ InRange /\ Resizing) =>
    /\ NCols(testData) = TestBudgetUpTo(MaxLabel)
    /\ NCols(testData) <= Floor(n_cols, testRatio)
    /\ NCols(trainData) = n_cols - NCols(testData)
    /\ NCols(testLabel) = NCols(testData)
    /\ NCols(trainLabel) = NCols(trainData)

C7_Witness ==
  /\ Stratified /\ pc = "done" /\ InRange
  /\ n_cols = 2 /\ Classes = {0, 1}
  /\ testRatio = [num |-> 1, den |-> 2]
  /\ NCols(testData) = 0 /\ NCols(trainData) = 2
  /\ Floor(n_cols, testRatio) = 1

(* C8: a stratified split whose labels are not a flat vector fails with    *)
(* an error before any output is resized or written.                       *)
C8_NonVectorLabelsRejected ==
  (Stratified /\ ~FlatLabels /\ pc # "call") =>
    /\ pc = "error"
    /\ err = "runtime_error"
    /\ OutputsUntouched

C8_Witness ==
  /\ Stratified /\ labelsType = "Mat" /\ prior > 0
  /\ pc = "error" /\ err = "runtime_error"
  /\ trainData = Fill(prior, Old) /\ n_cols = 3

(* C9: a call whose testRatio is outside [0,1] fails with InvalidArgument  *)
(* and leaves the outputs as they were; no testSize above n and no         *)
(* wrapped trainSize is computed.                                          *)
C9_BadRatioRejected ==
  (~InRange /\ (Stratified => FlatLabels)) =>
    /\ pc \in {"done", "error"} =>
         /\ pc = "error"
         /\ err = "InvalidArgument"
         /\ OutputsUntouched
    /\ ~ULess(n_cols, testSize)
    /\ ~Huge(trainSize)

(* C10: a Split call whose label count differs from the column count       *)
(* fails with DimensionMismatch before any output is populated, and never  *)
(* returns label outputs whose lengths differ from the data outputs'.      *)
C10_LabelLengthRejected ==
  (Callee = "SplitHelperLabels" /\ ~LabelsMatch /\ InRange /\ pc # "call") =>
    /\ pc \in {"done", "error"} =>
         /\ pc = "error"
         /\ err = "DimensionMismatch"
         /\ OutputsUntouched
    /\ pc = "done" =>
         /\ NCols(trainLabel) = NCols(trainData)
         /\ NCols(testLabel) = NCols(testData)

(* What a split is to deliver: the columns (labels) at the first trainSize  *)
(* places of the visiting order are the training data (labels), the rest   *)
(* the test data (labels).                                                 *)
ExpectedTrainData == [k \in 0..(trainSize - 1) |-> input[order[k]]]

ExpectedTestData == [k \in 0..(testSize - 1) |-> input[order[trainSize + k]]]

ExpectedTrainLabel == [k \in 0..(trainSize - 1) |-> inputLabel[order[k]]]

ExpectedTestLabel ==
  [k \in 0..(testSize - 1) |-> inputLabel[order[trainSize + k]]]

(* C11: the field overload with output parameters, called in the           *)
(* documented argument order, leaves the training data in the caller's     *)
(* trainData, the test data in testData, the training labels in            *)
(* trainLabel and the test labels in testLabel; the tuple-returning field  *)
(* overload returns (trainData, testData, trainLabel, testLabel).          *)
C11_FieldOutputsNotSwapped ==
  (api \in FieldApis /\ InRange /\ LabelsMatch /\ pc = "done") =>
    /\ CallerSees("trainData") = ExpectedTrainData
    /\ CallerSees("testData") = ExpectedTestData
    /\ CallerSees("trainLabel") = ExpectedTrainLabel
    /\ CallerSees("testLabel") = ExpectedTestLabel
    /\ api = "SplitFieldTuple" =>
         ReturnedTuple = <<ExpectedTrainData, ExpectedTestData,
                           ExpectedTrainLabel, ExpectedTestLabel>>

(* The part of C11 that is about the tuple-returning field overload. *)
FieldTupleInOrder ==
  (api = "SplitFieldTuple" /\ InRange /\ LabelsMatch /\ pc = "done") =>
    ReturnedTuple = <<ExpectedTrainData, ExpectedTestData,
                      ExpectedTrainLabel, ExpectedTestLabel>>

(* The columns of v are input columns in their original order. *)
InInputOrder(v) ==
  \A k, l \in DOMAIN v : k < l => v[k] < v[l]

(* The input columns before col that carry col's label. *)
EarlierOfClass(col) ==
  Cardinality({m \in 0..(col - 1) : inputLabel[m] = inputLabel[col]})

UnshuffledStratified ==
  Stratified /\ FlatLabels /\ InRange /\ ~shuffleData /\ pc = "done"

(* C20: an unshuffled stratified split preserves the order: the train      *)
(* output followed by the test output is the input.                        *)
C20_StratifiedTrainThenTestIsInput ==
  UnshuffledStratified =>
    [k \in 0..(n_cols - 1) |->
       IF k < trainSize THEN trainData[k] ELSE testData[k - trainSize]]
      = input

(* C20, amended: each output on its own keeps the input order; the test    *)
(* output holds, of every class, its first floor(classCount * testRatio)   *)
(* columns and the train output holds the others.                          *)
C20_StratifiedKeepsRelativeOrder ==
  UnshuffledStratified =>
    /\ IsPartition
    /\ InInputOrder(trainData)
    /\ InInputOrder(testData)
    /\ \A col \in DOMAIN input :
         Occurrences(testData, input[col]) = 1
           <=> EarlierOfClass(col)
                 < Floor(ClassCount(inputLabel[col]), testRatio)

(* The first column goes to the test output, the next two to train. *)
C20_Witness ==
  /\ UnshuffledStratified
  /\ inputLabel = (0 :> 1 @@ 1 :> 0 @@ 2 :> 1)
  /\ testRatio = [num |-> 1, den |-> 2]
  /\ trainData = (0 :> 1 @@ 1 :> 2)
  /\ testData = (0 :> 0)

(***************************************************************************)
(* AllCategoricalSplit::SplitIfBetter                                      *)
(* (methods/decision_tree/all_categorical_split_impl.hpp).                 *)
(*                                                                         *)
(* A double that is cast to an index (a category value, a stored payload)  *)
(* is kept in units of 1/DataScale, so that the cast truncates.  Gains     *)
(* are exact rationals [num, den] counted in multiples of the tolerance    *)
(* epsilon; den = 0 is the NaN that 0/0 gives.                             *)
(***************************************************************************)

(* Bounds of the model. *)
MaxSamples == 2
MaxCategories == 2
MaxLeafSize == 2
DataScale == 2

(* The documented example: 2 categories with counts [5, 1]. *)
ExampleCounts == <<5, 1>>

ExampleLeafSize == 2

(* The tolerance for floating-point errors, the unit of the gains. *)
epsilon == 1

(* The sentinel that is returned when there is no improvement. *)
DBL_MAX == [max |-> TRUE, num |-> 0, den |-> 1]

GainValue(g) == [max |-> FALSE, num |-> g.num, den |-> g.den]

NaN(g) == g.den = 0

(* g > t for a gain g and a whole number t of tolerances; a comparison     *)
(* with NaN is false.                                                      *)
Greater(g, t) == g.den > 0 /\ g.num > t * g.den

(* size_t to double. *)
ToDouble(k) == k * DataScale

(* (size_t) x.  A negative x above -1 truncates to 0; x <= -1 is outside   *)
(* the range of size_t, and the build either saturates or wraps.           *)
CastToIndex(x) ==
  IF x >= 0 THEN x \div DataScale
  ELSE IF x > -DataScale THEN 0
  ELSE IF negativeCast = "saturate" THEN 0
  ELSE -((-x) \div DataScale)

(* The sum of the first k entries of f. *)
RECURSIVE SumTo(_, _)
SumTo(f, k) == IF k = 0 THEN 0 ELSE f[k - 1] + SumTo(f, k - 1)

(* The values a feature column is drawn from: the halves from -1 to        *)
(* nc, of which those in [0, nc) are categories.                           *)
CategoryValues(nc) == (-DataScale)..(nc * DataScale)

(* The feature columns of n points: categories, but for the last value,   *)
(* which is any of CategoryValues.                                         *)
Columns(n, nc) ==
  {d \in [0..(n - 1) -> CategoryValues(nc)] :
     \A j \in 0..(n - 2) : d[j] \in {ToDouble(c) : c \in 0..(nc - 1)}}

WeightValues == {0, 1}

ValidCategories ==
  \A j \in DOMAIN data : 0 <= data[j] /\ data[j] < numCategories * DataScale

(* What splitInfo held before the call. *)
PriorSplitInfo(type) == IF type = "double" THEN Old ELSE Fill(2, Old)

BestGains == {-2, -1}

MinimumGainSplits == {0, 1}

SibCallArgs ==
  \/ /\ UseWeights \in BOOLEAN
     /\ numCategories \in 1..MaxCategories
     /\ \E n \in 0..MaxSamples :
          /\ data \in Columns(n, numCategories)
          /\ nodeLabels \in [0..(n - 1) -> 0..1]
          /\ weights \in (IF UseWeights THEN [0..(n - 1) -> WeightValues]
                          ELSE {<<>>})
     /\ negativeCast \in (IF \E j \in DOMAIN data : data[j] <= -DataScale
                          THEN {"wrap", "saturate"} ELSE {"wrap"})
     /\ minimumLeafSize \in 0..MaxLeafSize
     /\ bestGain \in BestGains
     /\ minimumGainSplit \in MinimumGainSplits
  \/ /\ UseWeights \in BOOLEAN
     /\ numCategories = 2
     /\ data = [j \in 0..(ExampleCounts[1] + ExampleCounts[2] - 1) |->
                  IF j < ExampleCounts[1] THEN ToDouble(0) ELSE ToDouble(1)]
     /\ nodeLabels \in {[j \in DOMAIN data |-> 0], [j \in DOMAIN data |-> j % 2]}
     /\ weights \in (IF UseWeights
                     THEN {[j \in DOMAIN data |-> 1],
                           [j \in DOMAIN data |-> IF j % 3 = 0 THEN 0 ELSE 1]}
                     ELSE {<<>>})
     /\ negativeCast = "wrap"
     /\ minimumLeafSize \in {ExampleCounts[2], ExampleLeafSize}
     /\ bestGain \in BestGains
     /\ minimumGainSplit = 0

InitSib ==
  /\ SplitIdle
  /\ LossIdle
  /\ SibCallArgs
  /\ SplitInfoType \in {"double", "vec"}
  /\ numClasses = 2
  /\ splitInfo = PriorSplitInfo(SplitInfoType)
  /\ childCounts = <<>>
  /\ childWeightSums = <<>>
  /\ sumWeight = 0
  /\ childPositions = <<>>
  /\ childLabels = <<>>
  /\ childWeights = <<>>
  /\ overallGain = 0
  /\ ret = 0
  /\ point = 0
  /\ numChildren = 0
  /\ direction = 0
  /\ pc = "sibCall"
  /\ err = "none"

n_elem == NCols(data)

IndexInBounds(idx, size) == 0 <= idx /\ idx < size

(* The counting loop after its first k iterations. *)
RECURSIVE CountLoop(_)
CountLoop(k) ==
  IF k = 0
  THEN [counts |-> Fill(numCategories, 0),
        sums |-> IF UseWeights THEN Fill(numCategories, 0) ELSE <<>>,
        sum |-> 0]
  ELSE LET before == CountLoop(k - 1)
           category == CastToIndex(data[k - 1])
       IN [counts |-> [before.counts EXCEPT ![category] = @ + 1],
           sums |-> IF UseWeights
                    THEN [before.sums EXCEPT ![category] = @ + weights[k - 1]]
                    ELSE before.sums,
           sum |-> IF UseWeights THEN before.sum + weights[k - 1]
                   ELSE before.sum]

(* The counts, the weight sums and the total weight.  counts[] is not      *)
(* bounds-checked: an index outside it is undefined behaviour.             *)
CountChildren ==
  /\ pc = "sibCall"
  /\ IF \A j \in DOMAIN data : IndexInBounds(CastToIndex(data[j]), numCategories)
     THEN LET after == CountLoop(n_elem) IN
          /\ childCounts' = after.counts
          /\ childWeightSums' = after.sums
          /\ sumWeight' = after.sum
          /\ pc' = "sibGuard"
          /\ err' = err
     ELSE /\ pc' = "error"
          /\ err' = "undefined"
          /\ UNCHANGED <<childCounts, childWeightSums, sumWeight>>
  /\ UNCHANGED <<splitVars, lossVars, sibArgs, splitInfo, childPositions,
                 childLabels, childWeights, overallGain, ret, routing>>

(* arma::min(counts). *)
MinCount(c) == CHOOSE m \in {c[j] : j \in DOMAIN c} : \A j \in DOMAIN c : m <= c[j]

(* The guard asking that every child be too small. *)
TooSmallEveryChild(c, leaf) == \A j \in DOMAIN c : c[j] < leaf

(* Some child would have fewer than minimumLeafSize points. *)
TooSmall(c, leaf) == MinCount(c) < leaf

LeafSizeGuard ==
  /\ pc = "sibGuard"
  /\ IF TooSmall(childCounts, minimumLeafSize)
     THEN /\ ret' = DBL_MAX
          /\ pc' = "sibDone"
     ELSE /\ ret' = ret
          /\ pc' = "sibExtract"
  /\ UNCHANGED <<splitVars, lossVars, sibArgs, splitInfo, sibLocals, routing,
                 err>>

(* The extraction loop walking the column from its last point. *)
RECURSIVE ExtractLoopBackwards(_)
ExtractLoopBackwards(k) ==
  IF k = 0
  THEN [pos |-> Fill(numCategories, 0),
        lab |-> [c \in 0..(numCategories - 1) |-> Fill(childCounts[c], 0)],
        wts |-> [c \in 0..(numCategories - 1) |->
                   IF UseWeights THEN Fill(childCounts[c], 0) ELSE <<>>]]
  ELSE LET before == ExtractLoopBackwards(k - 1)
           category == CastToIndex(data[n_elem - k])
           at == before.pos[category]
       IN [pos |-> [before.pos EXCEPT ![category] = @ + 1],
           lab |-> [before.lab EXCEPT ![category][at] = nodeLabels[n_elem - k]],
           wts |-> IF UseWeights
                   THEN [before.wts EXCEPT ![category][at] = weights[n_elem - k]]
                   ELSE before.wts]

(* The extraction loop after its first k iterations. *)
RECURSIVE ExtractLoop(_)
ExtractLoop(k) ==
  IF k = 0
  THEN [pos |-> Fill(numCategories, 0),
        lab |-> [c \in 0..(numCategories - 1) |-> Fill(childCounts[c], 0)],
        wts |-> [c \in 0..(numCategories - 1) |->
                   IF UseWeights THEN Fill(childCounts[c], 0) ELSE <<>>]]
  ELSE LET before == ExtractLoop(k - 1)
           category == CastToIndex(data[k - 1])
           at == before.pos[category]
       IN [pos |-> [before.pos EXCEPT ![category] = @ + 1],
           lab |-> [before.lab EXCEPT ![category][at] = nodeLabels[k - 1]],
           wts |-> IF UseWeights
                   THEN [before.wts EXCEPT ![category][at] = weights[k - 1]]
                   ELSE before.wts]

(* The labels (and weights) that would be assigned to each child. *)
ExtractLabels ==
  /\ pc = "sibExtract"
  /\ LET after == ExtractLoop(n_elem) IN
       /\ childPositions' = after.pos
       /\ childLabels' = after.lab
       /\ childWeights' = after.wts
  /\ pc' = "sibGain"
  /\ UNCHANGED <<splitVars, lossVars, sibArgs, splitInfo, childCounts,
                 childWeightSums, sumWeight, overallGain, ret, routing, err>>

(* FitnessFunction::Evaluate: minus the weight of the pairs of points of   *)
(* one child that carry different labels (0 for a pure or empty child).    *)
ClassWeight(useWeights, lab, wts, c) ==
  SumTo([j \in DOMAIN lab |->
           IF lab[j] = c THEN (IF useWeights THEN wts[j] ELSE 1) ELSE 0],
        NCols(lab))

Evaluate(useWeights, lab, classes, wts) ==
  LET total == SumTo([c \in 0..(classes - 1) |->
                        ClassWeight(useWeights, lab, wts, c)], classes)
      squares == SumTo([c \in 0..(classes - 1) |->
                          ClassWeight(useWeights, lab, wts, c)
                          * ClassWeight(useWeights, lab, wts, c)], classes)
  IN -((total * total - squares) \div 2)

(* The numerator of childPct; its denominator is ShareDen. *)
ShareNum(c) == IF UseWeights THEN childWeightSums[c] ELSE childCounts[c]

(* ShareDen with the sample count used in weighted mode too. *)
ShareDenOfCounts == n_elem

ShareDen == IF UseWeights THEN sumWeight ELSE n_elem

(* The gain of the split: the sum of childPct * childGain. *)
ComputeGain ==
  /\ pc = "sibGain"
  /\ overallGain' =
       [num |-> SumTo([c \in 0..(numCategories - 1) |->
                         ShareNum(c) * Evaluate(UseWeights, childLabels[c],
                                                numClasses, childWeights[c])],
                      NCols(childCounts)),
        den |-> ShareDen]
  /\ pc' = "sibAccept"
  /\ UNCHANGED <<splitVars, lossVars, sibArgs, splitInfo, childCounts,
                 childWeightSums, sumWeight, childPositions, childLabels,
                 childWeights, ret, routing, err>>

(* StoreSplitInfo keeping the payload of an earlier split. *)
StoreSplitInfoMinusOne(type, payload) ==
  IF type = "double" THEN payload - DataScale
  ELSE [j \in 0..0 |-> payload - DataScale]

(* StoreSplitInfo: a scalar for regression, a one-element vector for       *)
(* classification.                                                         *)
StoreSplitInfo(type, payload) ==
  IF type = "double" THEN payload ELSE [j \in 0..0 |-> payload]

(* The acceptance test without the tolerance. *)
IsBetterNoTolerance(g) == Greater(g, bestGain + minimumGainSplit)

(* The split is better than the best one so far. *)
IsBetter(g) == Greater(g, bestGain + minimumGainSplit + epsilon)

(* AcceptIfBetter storing the payload before the gain is compared. *)
AcceptIfBetterStoreFirst ==
  /\ pc = "sibAccept"
  /\ splitInfo' = StoreSplitInfo(SplitInfoType, ToDouble(numCategories))
  /\ ret' = (IF IsBetter(overallGain) THEN GainValue(overallGain) ELSE DBL_MAX)
  /\ pc' = "sibDone"
  /\ UNCHANGED <<splitVars, lossVars, sibArgs, sibLocals, routing, err>>

AcceptIfBetter ==
  /\ pc = "sibAccept"
  /\ IF IsBetter(overallGain)
     THEN /\ splitInfo' = StoreSplitInfo(SplitInfoType, ToDouble(numCategories))
          /\ ret' = GainValue(overallGain)
     ELSE /\ splitInfo' = splitInfo
          /\ ret' = DBL_MAX
  /\ pc' = "sibDone"
  /\ UNCHANGED <<splitVars, lossVars, sibArgs, sibLocals, routing, err>>

(* NumChildren: (size_t) splitInfo. *)
NumChildren(info) == CastToIndex(info)

(* CalculateDirection: (size_t) point. *)
CalculateDirection(pt) == CastToIndex(pt)

(* A point is routed with the payload of an accepted split. *)
RoutePoint ==
  /\ pc = "sibDone"
  /\ ~ret.max
  /\ \E pt \in CategoryValues(numCategories) :
       /\ point' = pt
       /\ direction' = CalculateDirection(pt)
  /\ numChildren' = NumChildren(IF SplitInfoType = "double" THEN splitInfo
                                ELSE splitInfo[0])
  /\ pc' = "sibRouted"
  /\ UNCHANGED <<splitVars, lossVars, sibArgs, splitInfo, sibLocals, ret, err>>

NextSib ==
  \/ CountChildren
  \/ LeafSizeGuard
  \/ ExtractLabels
  \/ ComputeGain
  \/ AcceptIfBetter
  \/ RoutePoint

SpecSib == InitSib /\ [][NextSib]_vars

(* --- Claims about SplitIfBetter --- *)

Returned == pc \in {"sibDone", "sibRouted"}

(* The points of the column whose value casts to category c. *)
Bucket(c) == {j \in DOMAIN data : CastToIndex(data[j]) = c}

SomeBucketBelowLeafSize ==
  \E c \in 0..(numCategories - 1) : Cardinality(Bucket(c)) < minimumLeafSize

(* C12: whenever one of the numCategories buckets, an empty one included,  *)
(* holds fewer than minimumLeafSize points, the call returns DBL_MAX,      *)
(* whatever the labels, the weights, bestGain and minimumGainSplit are,    *)
(* with and without weights; and the weight sums play no part: a call      *)
(* that stops at the guard has such a bucket.                              *)
C12_LeafSizeGuard ==
  /\ (Returned /\ SomeBucketBelowLeafSize) => ret = DBL_MAX
  /\ (Returned /\ childPositions = <<>>) => SomeBucketBelowLeafSize

(* The example: counts [5, 1] and minimumLeafSize 2, with weights. *)
C12_Witness ==
  /\ Returned
  /\ UseWeights
  /\ numCategories = 2
  /\ Cardinality(Bucket(0)) = ExampleCounts[1]
  /\ Cardinality(Bucket(1)) = ExampleCounts[2]
  /\ minimumLeafSize = ExampleLeafSize
  /\ ret = DBL_MAX

GuardPassed == Returned /\ childPositions # <<>>

Threshold == bestGain + minimumGainSplit + epsilon

(* C13: when the leaf-size guard passes, the call returns overallGain if   *)
(* and only if overallGain > bestGain + minimumGainSplit + epsilon; a gain *)
(* equal to that threshold, or below it, returns DBL_MAX.                  *)
C13_StrictAcceptance ==
  GuardPassed =>
    IF overallGain.den > 0 /\ overallGain.num > Threshold * overallGain.den
    THEN ret = [max |-> FALSE, num |-> overallGain.num, den |-> overallGain.den]
    ELSE ret = DBL_MAX

(* A tie: the gain equals the threshold and the sentinel is returned. *)
C13_Witness ==
  /\ GuardPassed
  /\ overallGain.den > 0
  /\ overallGain.num = Threshold * overallGain.den
  /\ minimumGainSplit > 0
  /\ ret = DBL_MAX

Accepted == Returned /\ ~ret.max

(* C14: an accepted split stores numCategories as its payload, a scalar    *)
(* for regression and a one-element vector for classification, so that     *)
(* NumChildren of the payload is numCategories; and CalculateDirection is  *)
(* the integer part of the point's value, which for a value in             *)
(* [0, numCategories) is less than NumChildren of the payload.             *)
C14_PayloadRoundTrip ==
  /\ Accepted =>
       IF SplitInfoType = "double"
       THEN splitInfo = numCategories * DataScale
       ELSE NCols(splitInfo) = 1 /\ splitInfo[0] = numCategories * DataScale
  /\ pc = "sibRouted" => numChildren = numCategories
  /\ (pc = "sibRouted" /\ 0 <= point /\ point < numCategories * DataScale) =>
       /\ direction * DataScale <= point
       /\ point < (direction + 1) * DataScale
       /\ direction < numChildren

(* A point between two categories is routed by a classification split. *)
C14_Witness ==
  /\ pc = "sibRouted"
  /\ SplitInfoType = "vec"
  /\ numCategories = 2
  /\ point = DataScale + 1
  /\ direction = 1
  /\ numChildren = 2

(* The first k values of v that belong to the points of category c, in    *)
(* the order of the column.                                                *)
RECURSIVE Select(_, _, _)
Select(v, c, k) ==
  IF k = 0 THEN <<>>
  ELSE LET rest == Select(v, c, k - 1) IN
       IF CastToIndex(data[k - 1]) = c
       THEN rest @@ (NCols(rest) :> v[k - 1])
       ELSE rest

BucketLabels(c) == Select(nodeLabels, c, n_elem)

BucketWeights(c) == IF UseWeights THEN Select(weights, c, n_elem) ELSE <<>>

(* count(bucket) without weights, weightSum(bucket) with them. *)
BucketMass(c) ==
  IF UseWeights THEN SumTo(BucketWeights(c), NCols(BucketWeights(c)))
  ELSE Cardinality(Bucket(c))

(* n without weights, the total weight with them. *)
TotalMass == IF UseWeights THEN SumTo(weights, n_elem) ELSE n_elem

BucketsEvaluated ==
  \A c \in 0..(numCategories - 1) :
    /\ childLabels[c] = BucketLabels(c)
    /\ childWeights[c] = BucketWeights(c)

GainIsSumOfShares ==
  /\ overallGain.den = TotalMass
  /\ overallGain.num =
       SumTo([c \in 0..(numCategories - 1) |->
                BucketMass(c) * Evaluate(UseWeights, BucketLabels(c), numClasses,
                                         BucketWeights(c))],
             numCategories)

(* The shares BucketMass(c) / TotalMass sum to 1. *)
SharesSumToOne ==
  /\ TotalMass > 0
  /\ SumTo([c \in 0..(numCategories - 1) |-> BucketMass(c)], numCategories)
       = TotalMass

(* C15: when the leaf-size guard passes, the gain is the sum over the      *)
(* buckets of share * Evaluate(bucket labels, numClasses, bucket weights), *)
(* the share being count / n or weightSum / totalWeight, the shares sum    *)
(* to 1, and every bucket is evaluated on exactly its points' labels and   *)
(* weights.                                                                *)
C15_GainIsShareWeightedSum ==
  GuardPassed => (BucketsEvaluated /\ GainIsSumOfShares /\ SharesSumToOne)

(* C15, amended: the same whenever n (the total weight, with weights) is   *)
(* positive; when it is zero the shares are 0/0, the gain is NaN and the   *)
(* call returns DBL_MAX.                                                   *)
C15_GainIsShareWeightedSumOfPositiveTotal ==
  GuardPassed =>
    /\ BucketsEvaluated
    /\ GainIsSumOfShares
    /\ IF TotalMass > 0 THEN SharesSumToOne
       ELSE NaN(overallGain) /\ ret = DBL_MAX

(* Two buckets of different weight, one of them with both classes. *)
C15_Witness ==
  /\ GuardPassed
  /\ UseWeights
  /\ numCategories = 2
  /\ BucketMass(0) > BucketMass(1)
  /\ BucketMass(1) > 0
  /\ TotalMass < n_elem
  /\ overallGain.num < 0

(* C19: a column holding a value that is negative or >= numCategories is  *)
(* rejected as invalid input, and no such value is used as an index into   *)
(* the per-category arrays.                                                *)
C19_InvalidCategoryRejected ==
  (~ValidCategories /\ pc # "sibCall") =>
    (pc = "error" /\ err = "invalid_argument")

Extracted == pc \in {"sibGain", "sibAccept"} \/ GuardPassed

(* C21: after the extraction loop every category c has a child label list  *)
(* (and, with weights, a child weight list) of length counts[c], its       *)
(* cursor childPositions[c] is counts[c], the counts sum to n, and the     *)
(* list holds the labels (weights) of the points of category c in the      *)
(* order of the column.                                                    *)
C21_BucketsBuilt ==
  Extracted =>
    /\ DOMAIN childLabels = 0..(numCategories - 1)
    /\ DOMAIN childWeights = 0..(numCategories - 1)
    /\ \A c \in 0..(numCategories - 1) :
         /\ childCounts[c] = Cardinality(Bucket(c))
         /\ NCols(childLabels[c]) = childCounts[c]
         /\ childPositions[c] = childCounts[c]
         /\ childLabels[c] = Select(nodeLabels, c, n_elem)
         /\ IF UseWeights
            THEN /\ NCols(childWeights[c]) = childCounts[c]
                 /\ childWeights[c] = Select(weights, c, n_elem)
            ELSE NCols(childWeights[c]) = 0
    /\ SumTo(childCounts, numCategories) = n_elem

(* The example column with a leaf size of 1: five points and one, with     *)
(* alternating labels.                                                     *)
C21_Witness ==
  /\ Extracted
  /\ UseWeights
  /\ childPositions = (0 :> ExampleCounts[1] @@ 1 :> ExampleCounts[2])
  /\ childLabels[0] = (0 :> 0 @@ 1 :> 1 @@ 2 :> 0 @@ 3 :> 1 @@ 4 :> 0)
  /\ childLabels[1] = (0 :> 1)
  /\ childWeights[0] = (0 :> 0 @@ 1 :> 1 @@ 2 :> 1 @@ 3 :> 0 @@ 4 :> 1)

(* A step of a call that stays within defined behaviour leaves the        *)
(* column, the labels and the weights alone, and writes splitInfo only     *)
(* when it accepts the split.                                              *)
FrameStep ==
  pc' # "error" =>
    /\ data' = data
    /\ nodeLabels' = nodeLabels
    /\ weights' = weights
    /\ splitInfo' # splitInfo => (pc = "sibAccept" /\ ~ret'.max)

(* C22: the call never modifies the feature column, the labels or the      *)
(* weights; whenever it returns DBL_MAX, from the leaf-size guard or from  *)
(* the gain test, splitInfo is what it was before the call; splitInfo is   *)
(* written on the accepting path only.                                     *)
C22_FrameCondition ==
  /\ []((Returned /\ ret.max) => splitInfo = PriorSplitInfo(SplitInfoType))
  /\ [][FrameStep]_vars

(* A classification split rejected by the gain test: the caller's          *)
(* two-element splitInfo is untouched.                                     *)
C22_Witness ==
  /\ GuardPassed
  /\ ret = DBL_MAX
  /\ n_elem > 0
  /\ SplitInfoType = "vec"
  /\ splitInfo = Fill(2, Old)

(* ======================================================================= *)
(* SSELoss (sse_loss.hpp).  One call per behaviour.  Values are small      *)
(* integers, exactly representable in every element type; the result of    *)
(* InitialPrediction is a rational [num, den], den = 0 being NaN.          *)
(* ======================================================================= *)

MaxLen == 2
MaxValue == 1

(* The documented example: InitialPrediction([2, 4, 6]) == 4. *)
ExampleValues == (0 :> 2 @@ 1 :> 4 @@ 2 :> 6)

LossValues == (-MaxValue)..MaxValue

LossVectors == UNION {[0..(n - 1) -> LossValues] : n \in 0..MaxLen}

LossFns == {"InitialPrediction", "Gradients", "Hessians", "Residuals"}

LossCallArgs ==
  \/ /\ lossFn = "InitialPrediction"
     /\ elemType \in {"double", "int"}
     /\ shape = "Row"
     /\ observed = <<>>
     /\ predicted \in LossVectors \cup {ExampleValues}
  \/ /\ lossFn \in LossFns \ {"InitialPrediction"}
     /\ elemType = "double"
     /\ \/ /\ shape = "scalar"
           /\ observed \in LossValues
           /\ predicted \in LossValues
        \/ /\ shape \in {"Row", "Col"}
           /\ observed \in LossVectors
           /\ predicted \in LossVectors

InitLoss ==
  /\ SplitIdle
  /\ SibIdle
  /\ LossCallArgs
  /\ lossResult = 0
  /\ pc = "lossCall"
  /\ err = "none"

(* arma::accu(values) / (eT) values.n_elem: exact for a floating-point     *)
(* eT, truncated toward zero for an integer eT.                            *)
InitialPrediction(eT, values) ==
  LET sum == SumTo(values, NCols(values)) IN
  IF eT = "double" THEN [num |-> sum, den |-> NCols(values)]
  ELSE [num |-> Trunc(sum, [num |-> 1, den |-> NCols(values)]), den |-> 1]

CallInitialPrediction ==
  /\ pc = "lossCall"
  /\ lossFn = "InitialPrediction"
  /\ IF elemType = "int" /\ NCols(predicted) = 0
     THEN \* integer division by zero
          /\ pc' = "error"
          /\ err' = "undefined"
          /\ lossResult' = lossResult
     ELSE /\ lossResult' = InitialPrediction(elemType, predicted)
          /\ pc' = "lossDone"
          /\ err' = err
  /\ UNCHANGED <<splitVars, sibVars, lossFn, elemType, shape, observed,
                 predicted>>

(* Unary minus, elementwise on a vector. *)
Neg(x) == IF shape = "scalar" THEN -x ELSE [j \in DOMAIN x |-> -x[j]]

(* Binary minus, elementwise on vectors of one size. *)
Sub(a, b) == IF shape = "scalar" THEN a - b ELSE [j \in DOMAIN a |-> a[j] - b[j]]

(* Armadillo refuses to subtract vectors of different sizes. *)
SameSize(a, b) == shape = "scalar" \/ NCols(a) = NCols(b)

(* Gradients without the negation. *)
GradientsOfResidual(o, v) == Sub(o, v)

Gradients(o, v) == Neg(Sub(o, v))

Residuals(o, f) == Neg(Gradients(o, f))

CallGradients ==
  /\ pc = "lossCall"
  /\ lossFn = "Gradients"
  /\ IF SameSize(observed, predicted)
     THEN /\ lossResult' = Gradients(observed, predicted)
          /\ pc' = "lossDone"
          /\ err' = err
     ELSE /\ pc' = "error"
          /\ err' = "logic_error"
          /\ lossResult' = lossResult
  /\ UNCHANGED <<splitVars, sibVars, lossFn, elemType, shape, observed,
                 predicted>>

CallResiduals ==
  /\ pc = "lossCall"
  /\ lossFn = "Residuals"
  /\ IF SameSize(observed, predicted)
     THEN /\ lossResult' = Residuals(observed, predicted)
          /\ pc' = "lossDone"
          /\ err' = err
     ELSE /\ pc' = "error"
          /\ err' = "logic_error"
          /\ lossResult' = lossResult
  /\ UNCHANGED <<splitVars, sibVars, lossFn, elemType, shape, observed,
                 predicted>>

(* Hessians for scalars: (T) 1. *)
HessiansScalar ==
  /\ pc = "lossCall"
  /\ lossFn = "Hessians"
  /\ shape = "scalar"
  /\ lossResult' = 1
  /\ pc' = "lossDone"
  /\ UNCHANGED <<splitVars, sibVars, lossFn, elemType, shape, observed,
                 predicted, err>>

(* What a freshly constructed vector holds: zeros, or, with an Armadillo   *)
(* that does not initialise, anything.                                     *)
FreshElements == {0, Uninit}

(* VecType h(rows, cols): a rows x cols object.  A Row of other than one   *)
(* row is refused, or, with the checks compiled out, built as asked.       *)
Constructed(type, rows, cols) ==
  {[refused |-> FALSE, value |-> Fill(rows * cols, x)] : x \in FreshElements}
    \cup (IF type = "Row" /\ rows # 1
          THEN {[refused |-> TRUE, value |-> <<>>]} ELSE {})

(* Hessians for vectors: VecType h(values.n_elem, 1); return h. *)
HessiansVector ==
  /\ pc = "lossCall"
  /\ lossFn = "Hessians"
  /\ shape \in {"Row", "Col"}
  /\ \E h \in Constructed(shape, NCols(predicted), 1) :
       IF h.refused
       THEN /\ pc' = "error"
            /\ err' = "logic_error"
            /\ lossResult' = lossResult
       ELSE /\ lossResult' = h.value
            /\ pc' = "lossDone"
            /\ err' = err
  /\ UNCHANGED <<splitVars, sibVars, lossFn, elemType, shape, observed,
                 predicted>>

NextLoss ==
  \/ CallInitialPrediction
  \/ CallGradients
  \/ CallResiduals
  \/ HessiansScalar
  \/ HessiansVector

SpecLoss == InitLoss /\ [][NextLoss]_vars

(* --- Claims about SSELoss --- *)

LossReturned(fn) == pc = "lossDone" /\ lossFn = fn

(* x is elementwise a - b. *)
IsDifference(x, a, b) ==
  IF shape = "scalar" THEN x = a - b
  ELSE /\ DOMAIN x = DOMAIN a
       /\ \A j \in DOMAIN x : x[j] = a[j] - b[j]

(* x + y is zero, elementwise. *)
SumIsZero(x, y) ==
  IF shape = "scalar" THEN x + y = 0
  ELSE /\ DOMAIN x = DOMAIN y
       /\ \A j \in DOMAIN x : x[j] + y[j] = 0

(* C16: for scalars and for vectors of one size, Gradients(observed,       *)
(* predicted) is predicted - observed, Residuals(observed, predicted) is   *)
(* observed - predicted, and the two add up to zero.                       *)
C16_GradientsAndResiduals ==
  /\ LossReturned("Gradients") =>
       /\ IsDifference(lossResult, predicted, observed)
       /\ lossResult = Neg(Sub(observed, predicted))
       /\ SumIsZero(lossResult, Residuals(observed, predicted))
  /\ LossReturned("Residuals") =>
       /\ IsDifference(lossResult, observed, predicted)
       /\ SumIsZero(Gradients(observed, predicted), lossResult)

(* The residuals of two column vectors that differ. *)
C16_Witness ==
  /\ LossReturned("Residuals")
  /\ shape = "Col"
  /\ NCols(observed) = MaxLen
  /\ lossResult[0] > 0
  /\ lossResult[1] < 0

(* C17: Hessians returns 1 for scalars and, for a row or column vector of  *)
(* length n, a vector of length n whose elements are all 1.                *)
C17_HessiansAllOnes ==
  /\ (lossFn = "Hessians" /\ pc # "lossCall") => pc = "lossDone"
  /\ LossReturned("Hessians") =>
       IF shape = "scalar" THEN lossResult = 1
       ELSE /\ NCols(lossResult) = NCols(predicted)
            /\ \A j \in DOMAIN lossResult : lossResult[j] = 1

(* C18: InitialPrediction(values) is the sum of the values divided by      *)
(* their number, for every non-empty input and every element type.         *)
C18_InitialPredictionIsMean ==
  (lossFn = "InitialPrediction" /\ pc # "lossCall" /\ NCols(predicted) > 0) =>
    /\ pc = "lossDone"
    /\ lossResult.den > 0
    /\ lossResult.num * NCols(predicted)
         = SumTo(predicted, NCols(predicted)) * lossResult.den

====
